---------------------------- MODULE Spec2Model ----------------------------
(***************************************************************************)
(* The authorization guard pipeline of the Telegram group manager bot      *)
(* (src/utils/decorators.py): the decorators that wrap a command handler   *)
(* and decide, per incoming update, whether the handler runs.              *)
(*                                                                         *)
(* A handler is decorated once, at import time, with a stack of guards     *)
(* (outermost first).  Every update for the handler runs the wrappers from *)
(* the outermost inwards.  One step of the model is the code a wrapper     *)
(* runs between two awaits.  The reply to the user (update.message.        *)
(* reply_text) is taken to be delivered: the update carries a message.     *)
(* None (an absent caller, an absent chat, an absent owner id) is written  *)
(* 0; user ids are positive.                                               *)
(***************************************************************************)
EXTENDS Integers, Sequences, FiniteSets, TLC

VARIABLES
    stack,      \* the guards the handler is decorated with, outermost first
    user_data,  \* context.user_data of every caller: a dict, as a function
    clock,      \* what time.time() returns
    update,     \* the update being handled: effective_user, effective_chat, command
    pc,         \* where the handling of the update is
    lvl,        \* the wrapper that runs (Len(stack) + 1: the handler itself)
    trace,      \* what the handling of this update has done so far, in order
    admitted,   \* per caller and handler: the times of the calls that reached the handler
    tasks,      \* the updates of one caller handled as concurrent tasks: where each is
    buttons,    \* KeyboardBuilder.buttons: the rows of the keyboard being built
    ops         \* the builder calls made since the builder was created or cleared

vars == <<stack, user_data, clock, update, pc, lvl, trace, admitted, tasks, buttons, ops>>

----------------------------------------------------------------------------
(* Bounds of the model *)

MaxTime == 3        \* the clock runs from 0 to MaxTime
StackDepth == 2     \* most guards stacked on one handler
MaxPermList == 2    \* longest `permissions` list given to require_permissions
MaxTasks == 3       \* most updates of one caller handled as concurrent tasks
MaxOps == 4         \* most calls made on one KeyboardBuilder
MaxActions == 4     \* longest `actions` list given to create_multi_action_keyboard
MaxColumns == 3     \* largest `columns` given to create_multi_action_keyboard

(* The values of the model *)

None == 0
Users == {1, 2}
Handlers == {"start", "info"}
Perms == {"edit_messages", "delete_messages"}
ChatTypes == {"private", "group", "supergroup", "channel"}
Statuses == {"creator", "administrator", "member", "left"}
Levels == 0..3

----------------------------------------------------------------------------
(* Python's dict and list operations *)

DictGet(d, k, default) == IF k \in DOMAIN d THEN d[k] ELSE default

DictSet(d, k, v) == [x \in DOMAIN d \cup {k} |-> IF x = k THEN v ELSE d[x]]

EmptyDict == [x \in {} |-> 0]

ToSet(s) == {s[i] : i \in DOMAIN s}

Event(ev, l, text, n, items) ==
    [ev |-> ev, lvl |-> l, text |-> text, n |-> n, items |-> items]

\* update.message.reply_text: the message format and what is filled into it
Reply(l, text, items) == Event("reply", l, text, 0, items)

----------------------------------------------------------------------------
(* The guards: one record per decorator, with the decorator's arguments *)

GuardRec(kind) ==
    [kind |-> kind, permission |-> "", permissions |-> <<>>, require_all |-> TRUE,
     level |-> 0, owner_id |-> None, max_calls |-> 0, period |-> 0,
     action_type |-> "action"]

RateLimitGuard(max_calls, period) ==
    [GuardRec("rate_limit") EXCEPT !.max_calls = max_calls, !.period = period]

PermissionGuard(permission) ==
    [GuardRec("require_permission") EXCEPT !.permission = permission]

PermissionsGuard(permissions, require_all) ==
    [GuardRec("require_permissions") EXCEPT !.permissions = permissions,
                                            !.require_all = require_all]

AccessLevelGuard(level) == [GuardRec("require_access_level") EXCEPT !.level = level]

LogActionGuard(action_type) == [GuardRec("log_action") EXCEPT !.action_type = action_type]

OwnerGuard(owner_id) == [GuardRec("require_owner") EXCEPT !.owner_id = owner_id]

----------------------------------------------------------------------------
(* The state before the first update: nothing is stored for any caller *)

InitWith(stacks) ==
    /\ stack \in stacks
    /\ user_data = [u \in Users |-> EmptyDict]
    /\ clock = 0
    /\ update = [user |-> None, chat |-> "none", command |-> "start"]
    /\ pc = "idle"
    /\ lvl = 0
    /\ trace = <<>>
    /\ admitted = [u \in Users |-> [f \in Handlers |-> <<>>]]
    /\ tasks = <<>>
    /\ buttons = <<>>
    /\ ops = <<>>

(* The framework dispatches the next update to the decorated handler *)
NewUpdateIn(updates) ==
    /\ pc \in {"idle", "done"}
    /\ update' \in updates
    /\ pc' = "enter"
    /\ lvl' = 1
    /\ trace' = <<>>
    /\ UNCHANGED <<stack, user_data, clock, admitted, tasks, buttons, ops>>

(* Time passes while no wrapper code runs: between two updates, or while a *)
(* wrapper is suspended in the remote lookup.                              *)
Tick ==
    /\ pc \in {"idle", "done", "lookup"}
    /\ clock < MaxTime
    /\ clock' = clock + 1
    /\ UNCHANGED <<stack, user_data, update, pc, lvl, trace, admitted, tasks, buttons, ops>>

(* `return await func(update, context)`: the wrapper calls what it wraps *)
Call(events) ==
    /\ trace' = trace \o events \o <<Event("call", lvl, "", 0, <<>>)>>
    /\ lvl' = lvl + 1
    /\ pc' = IF lvl = Len(stack) THEN "handler" ELSE "enter"

\* Faulty variant: the `return` after the reply is missing: the wrapper goes on to
\* call what it wraps
ReturnMissing(events) ==
    /\ trace' = trace \o events \o <<Event("call", lvl, "", 0, <<>>)>>
    /\ lvl' = lvl + 1
    /\ pc' = IF lvl = Len(stack) THEN "handler" ELSE "enter"

(* a bare `return`: the wrapper ends without calling what it wraps *)
Return(events) ==
    /\ trace' = trace \o events \o <<Event("return", lvl, "", 0, <<>>)>>
    /\ lvl' = lvl
    /\ pc' = "done"

(* an exception raised in the wrapper's own code, outside any try of its own *)
Raise(events) ==
    /\ trace' = trace \o events \o <<Event("raise", lvl, "", 0, <<>>)>>
    /\ lvl' = lvl - 1
    /\ pc' = "raise"

AtGuard(kind) ==
    /\ pc = "enter"
    /\ lvl \in DOMAIN stack
    /\ stack[lvl].kind = kind

----------------------------------------------------------------------------
(* Code outside this module stores what the guards read: the permission    *)
(* set and the access level of the caller whose update it has handled.     *)

\* the stored value matters to this handler: one of its guards reads it
StackReads(kinds) == \E i \in DOMAIN stack : stack[i].kind \in kinds

CachePermissions ==
    /\ pc = "done"
    /\ StackReads({"require_permission", "require_permissions"})
    /\ update.user # None
    /\ \E P \in SUBSET Perms :
         user_data' = [user_data EXCEPT ![update.user] = DictSet(@, "permissions", P)]
    /\ UNCHANGED <<stack, clock, update, pc, lvl, trace, admitted, tasks, buttons, ops>>

StoreAccessLevel ==
    /\ pc = "done"
    /\ StackReads({"require_access_level"})
    /\ update.user # None
    /\ \E L \in Levels :
         user_data' = [user_data EXCEPT ![update.user] = DictSet(@, "access_level", L)]
    /\ UNCHANGED <<stack, clock, update, pc, lvl, trace, admitted, tasks, buttons, ops>>

----------------------------------------------------------------------------
(* require_authentication.  The wrapper also stores the caller's username   *)
(* under "authenticated_user_username"; no guard reads either key.          *)

RequireAuthentication ==
    /\ AtGuard("require_authentication")
    /\ LET user == update.user
       IN  IF user = None
           THEN /\ Return(<<Reply(lvl, "Authentication failed. Please try again.", <<>>)>>)
                /\ UNCHANGED user_data
           ELSE /\ user_data' = [user_data EXCEPT ![user] =
                                    DictSet(@, "authenticated_user_id", user)]
                /\ Call(<<>>)
    /\ UNCHANGED <<stack, clock, update, admitted, tasks, buttons, ops>>

----------------------------------------------------------------------------
(* require_permission(permission), require_permissions(permissions, require_all) *)

\* context.user_data.get("permissions", set())
UserPermissions(u) == DictGet(user_data[u], "permissions", {})

\* `permission not in user_permissions`, negated
HasPermission(permission, user_permissions) == permission \in user_permissions

\* required_set.issubset(user_set)
HasAllPermissions(required_set, user_set) == required_set \subseteq user_set

\* bool(required_set & user_set)
HasAnyPermission(required_set, user_set) == (required_set \cap user_set) # {}

\* Faulty variant: the message lists everything required
MissingPermissionsAll(required_set, user_set) == required_set

\* required_set - user_set
MissingPermissions(required_set, user_set) == required_set \ user_set

\* ', '.join(a set): the elements once each, in the set's iteration order,
\* which the language leaves open
JoinOrders(S) == {s \in [1..Cardinality(S) -> S] : ToSet(s) = S}

RequirePermission ==
    /\ AtGuard("require_permission")
    /\ LET user == update.user
           permission == stack[lvl].permission
       IN  IF user = None
           THEN Return(<<Reply(lvl, "You are not authorized to perform this action.", <<>>)>>)
           ELSE IF ~HasPermission(permission, UserPermissions(user))
                THEN Return(<<Reply(lvl, "You don't have permission to execute this command: {permission}",
                                    <<permission>>)>>)
                ELSE Call(<<>>)
    /\ UNCHANGED <<stack, user_data, clock, update, admitted, tasks, buttons, ops>>

RequirePermissions ==
    /\ AtGuard("require_permissions")
    /\ LET user == update.user
           permissions == stack[lvl].permissions
           require_all == stack[lvl].require_all
       IN  IF user = None
           THEN Return(<<Reply(lvl, "You are not authorized to perform this action.", <<>>)>>)
           ELSE LET required_set == ToSet(permissions)
                    user_set == UserPermissions(user)
                IN  IF require_all
                    THEN IF ~HasAllPermissions(required_set, user_set)
                         THEN (\E missing \in JoinOrders(MissingPermissions(required_set, user_set)) :
                                 Return(<<Reply(lvl, "Missing permissions: {', '.join(missing)}", missing)>>))
                         ELSE Call(<<>>)
                    ELSE IF ~HasAnyPermission(required_set, user_set)
                         THEN Return(<<Reply(lvl, "Requires one of: {', '.join(permissions)}", permissions)>>)
                         ELSE Call(<<>>)
    /\ UNCHANGED <<stack, user_data, clock, update, admitted, tasks, buttons, ops>>

----------------------------------------------------------------------------
(* require_access_level(level) *)

\* context.user_data.get("access_level", 0)
UserLevel(u) == DictGet(user_data[u], "access_level", 0)

\* Faulty variant: the required level itself is refused
LevelTooLowInclusive(user_level, level) == user_level <= level

\* `if user_level < level`
LevelTooLow(user_level, level) == user_level < level

\* level_names.get(level, "Unknown")
LevelName(level) ==
    CASE level = 0 -> "User"
      [] level = 1 -> "Moderator"
      [] level = 2 -> "Administrator"
      [] level = 3 -> "Super Admin"
      [] OTHER -> "Unknown"

RequireAccessLevel ==
    /\ AtGuard("require_access_level")
    /\ LET user == update.user
           level == stack[lvl].level
       IN  IF user = None
           THEN Return(<<Reply(lvl, "Unable to verify access level.", <<>>)>>)
           ELSE IF LevelTooLow(UserLevel(user), level)
                THEN Return(<<Reply(lvl, "This action requires {required_name} access level.",
                                    <<LevelName(level)>>)>>)
                ELSE Call(<<>>)
    /\ UNCHANGED <<stack, user_data, clock, update, admitted, tasks, buttons, ops>>

----------------------------------------------------------------------------
(* The remote membership lookup, context.bot.get_chat_member(chat.id,      *)
(* user.id): the wrapper is suspended in it, and it returns a member       *)
(* status or raises.                                                       *)

NoChat == "none"

LookupResults == Statuses \cup {"raises"}

\* the call returns `result` to the wrapper that awaits it
GetChatMember(result) == Event("lookup", lvl, result, update.user, <<update.chat>>)

AwaitLookup ==
    /\ trace' = Append(trace, Event("await_lookup", lvl, "", update.user, <<update.chat>>))
    /\ lvl' = lvl
    /\ pc' = "lookup"

InLookup(kind) ==
    /\ pc = "lookup"
    /\ stack[lvl].kind = kind

\* member.status in ["creator", "administrator"]
IsAdminStatus(status) == status \in {"creator", "administrator"}

\* `member.status != "creator"`, negated
IsCreatorStatus(status) == status = "creator"

\* Faulty variant: only channels are refused
IsGroupChatLoose(chat_type) == chat_type # "channel"

\* chat.type not in ["group", "supergroup"], negated
IsGroupChat(chat_type) == chat_type \in {"group", "supergroup"}

----------------------------------------------------------------------------
(* require_admin() *)

RequireAdmin ==
    /\ AtGuard("require_admin")
    /\ IF update.user = None \/ update.chat = NoChat
       THEN Return(<<Reply(lvl, "Unable to verify admin status.", <<>>)>>)
       ELSE AwaitLookup
    /\ UNCHANGED <<stack, user_data, clock, update, admitted, tasks, buttons, ops>>

RequireAdminLookup ==
    /\ InLookup("require_admin")
    /\ \E result \in LookupResults :
         IF result = "raises"
         THEN Return(<<GetChatMember(result),
                       Reply(lvl, "Error verifying admin status.", <<>>)>>)
         ELSE IF ~IsAdminStatus(result)
              THEN Return(<<GetChatMember(result),
                            Reply(lvl, "You must be an admin to use this command.", <<>>)>>)
              ELSE Call(<<GetChatMember(result)>>)
    /\ UNCHANGED <<stack, user_data, clock, update, admitted, tasks, buttons, ops>>

----------------------------------------------------------------------------
(* require_group_admin *)

RequireGroupAdmin ==
    /\ AtGuard("require_group_admin")
    /\ IF update.user = None \/ update.chat = NoChat
       THEN Return(<<Reply(lvl, "Could not verify group admin status.", <<>>)>>)
       ELSE IF ~IsGroupChat(update.chat)
            THEN Return(<<Reply(lvl, "This command can only be used in groups.", <<>>)>>)
            ELSE AwaitLookup
    /\ UNCHANGED <<stack, user_data, clock, update, admitted, tasks, buttons, ops>>

RequireGroupAdminLookup ==
    /\ InLookup("require_group_admin")
    /\ \E result \in LookupResults :
         IF result = "raises"
         THEN Return(<<GetChatMember(result),
                       Reply(lvl, "Error verifying admin status.", <<>>)>>)
         ELSE IF ~IsAdminStatus(result)
              THEN Return(<<GetChatMember(result),
                            Reply(lvl, "You must be a group admin to use this command.", <<>>)>>)
              ELSE Call(<<GetChatMember(result)>>)
    /\ UNCHANGED <<stack, user_data, clock, update, admitted, tasks, buttons, ops>>

----------------------------------------------------------------------------
(* require_owner(owner_id) *)

\* `if chat:` in the branch without a fixed owner id
OwnerLooksUp(chat) == chat # NoChat

RequireOwner ==
    /\ AtGuard("require_owner")
    /\ LET user == update.user
           chat == update.chat
           owner_id == stack[lvl].owner_id
       IN  IF user = None
           THEN Return(<<Reply(lvl, "Could not verify ownership.", <<>>)>>)
           ELSE IF owner_id # None
                THEN IF user # owner_id
                     THEN Return(<<Reply(lvl, "Only the owner can execute this command.", <<>>)>>)
                     ELSE Call(<<>>)
                ELSE IF OwnerLooksUp(chat)
                     THEN AwaitLookup
                     ELSE Call(<<>>)
    /\ UNCHANGED <<stack, user_data, clock, update, admitted, tasks, buttons, ops>>

\* Faulty variant: the lookup is awaited outside any try: its exception propagates
RequireOwnerLookupUncaught ==
    /\ InLookup("require_owner")
    /\ \E result \in LookupResults :
         IF result = "raises"
         THEN Raise(<<GetChatMember(result)>>)
         ELSE IF ~IsCreatorStatus(result)
              THEN Return(<<GetChatMember(result),
                            Reply(lvl, "Only the group creator can execute this command.", <<>>)>>)
              ELSE Call(<<GetChatMember(result)>>)
    /\ UNCHANGED <<stack, user_data, clock, update, admitted, tasks, buttons, ops>>

RequireOwnerLookup ==
    /\ InLookup("require_owner")
    /\ \E result \in LookupResults :
         IF result = "raises"
         THEN Return(<<GetChatMember(result),
                       Reply(lvl, "Error verifying ownership.", <<>>)>>)
         ELSE IF ~IsCreatorStatus(result)
              THEN Return(<<GetChatMember(result),
                            Reply(lvl, "Only the group creator can execute this command.", <<>>)>>)
              ELSE Call(<<GetChatMember(result)>>)
    /\ UNCHANGED <<stack, user_data, clock, update, admitted, tasks, buttons, ops>>

----------------------------------------------------------------------------
(* log_action(action_type) *)

\* action_type.upper(), for the labels of the model
Upper(action_type) ==
    CASE action_type = "action" -> "ACTION"
      [] action_type = "ban" -> "BAN"
      [] OTHER -> action_type

\* the f-string reads user.id before logger.info is called: with no caller
\* it raises AttributeError and nothing is logged
LogLineRaises(user) == user = None

LogAction ==
    /\ AtGuard("log_action")
    /\ IF LogLineRaises(update.user)
       THEN Raise(<<>>)
       ELSE Call(<<Event("log", lvl, Upper(stack[lvl].action_type), update.user,
                         <<update.chat>>)>>)
    /\ UNCHANGED <<stack, user_data, clock, update, admitted, tasks, buttons, ops>>

----------------------------------------------------------------------------
(* rate_limit(max_calls, period) *)

\* Faulty variant: a call exactly `period` seconds old is kept
PruneCallsInclusive(calls, now, period) ==
    SelectSeq(calls, LAMBDA call_time : now - call_time <= period)

\* the list comprehension that keeps the calls inside the period
PruneCalls(calls, now, period) ==
    SelectSeq(calls, LAMBDA call_time : now - call_time < period)

\* Faulty variant: the call is turned away only above max_calls stored calls
RateLimitExceededStrict(calls, max_calls) == Len(calls) > max_calls

\* `if len(calls) >= max_calls`
RateLimitExceeded(calls, max_calls) == Len(calls) >= max_calls

\* context.user_data["rate_limits"][func_name], both keys created when missing
StoredCalls(u, func_name) ==
    DictGet(DictGet(user_data[u], "rate_limits", EmptyDict), func_name, <<>>)

SetStoredCalls(u, func_name, calls) ==
    [user_data EXCEPT ![u] =
        DictSet(@, "rate_limits",
                DictSet(DictGet(@, "rate_limits", EmptyDict), func_name, calls))]

RateLimit ==
    /\ AtGuard("rate_limit")
    /\ LET g == stack[lvl]
           user == update.user
           func_name == update.command
           now == clock
       IN  IF user = None
           THEN Return(<<>>) /\ UNCHANGED user_data
           ELSE LET calls == PruneCalls(StoredCalls(user, func_name), now, g.period)
                IN  IF RateLimitExceeded(calls, g.max_calls)
                    THEN /\ user_data' = SetStoredCalls(user, func_name, calls)
                         /\ Return(<<Reply(lvl, "You're sending too many requests. Please wait a moment.", <<>>)>>)
                    ELSE /\ user_data' = SetStoredCalls(user, func_name, Append(calls, now))
                         /\ Call(<<Event("record", lvl, "", now, <<>>)>>)
    /\ UNCHANGED <<stack, clock, update, admitted, tasks, buttons, ops>>

----------------------------------------------------------------------------
(* The wrapped handler, and an exception on its way out through the wrappers *)

\* the call passed a rate_limit wrapper, which recorded it
RateLimited(events) == \E i \in DOMAIN events : events[i].ev = "record"

Handler ==
    /\ pc = "handler"
    /\ \E outcome \in {"returns", "raises"} :
         /\ trace' = Append(trace, Event("handler", lvl, outcome, 0, <<>>))
         /\ pc' = IF outcome = "returns" THEN "done" ELSE "raise"
         /\ lvl' = IF outcome = "returns" THEN lvl ELSE lvl - 1
    /\ admitted' = IF RateLimited(trace)
                   THEN [admitted EXCEPT ![update.user][update.command] = Append(@, clock)]
                   ELSE admitted
    /\ UNCHANGED <<stack, user_data, clock, update, tasks, buttons, ops>>

\* the wrappers whose try block encloses the call of what they wrap
CatchesInnerException(kind) == kind \in {"require_admin", "require_group_admin"}

Unwind ==
    /\ pc = "raise"
    /\ IF lvl = 0
       THEN /\ trace' = Append(trace, Event("escaped", 0, "", 0, <<>>))
            /\ pc' = "done"
            /\ lvl' = lvl
       ELSE IF CatchesInnerException(stack[lvl].kind)
            THEN Return(<<Reply(lvl, "Error verifying admin status.", <<>>)>>)
            ELSE /\ trace' = trace
                 /\ pc' = "raise"
                 /\ lvl' = lvl - 1
    /\ UNCHANGED <<stack, user_data, clock, update, admitted, tasks, buttons, ops>>

----------------------------------------------------------------------------
(* SpecRate: a handler wrapped by rate_limit(max_calls, period) alone *)

\* the rate_limit decorations of the model, as <<max_calls, period>>
RateConfigs == {<<1, 1>>, <<1, 2>>, <<2, 1>>, <<2, 2>>, <<3, 2>>}

RateStacks == {<<RateLimitGuard(c[1], c[2])>> : c \in RateConfigs}

RateUpdates == [user : {1, None}, chat : {"private"}, command : Handlers]

InitRate == InitWith(RateStacks)

NewUpdateRate == NewUpdateIn(RateUpdates)

NextRate == NewUpdateRate \/ Tick \/ RateLimit \/ Handler \/ Unwind

SpecRate == InitRate /\ [][NextRate]_vars

\* the calls of caller u to handler f that reached the handler within the
\* trailing `period` seconds of `now`
RecentAdmitted(u, f, now, period) ==
    {i \in DOMAIN admitted[u][f] : now - admitted[u][f][i] < period}

\* the calls that reached the handler in the window [w, w + period)
AdmittedInWindow(u, f, w, period) ==
    {i \in DOMAIN admitted[u][f] :
        w <= admitted[u][f][i] /\ admitted[u][f][i] < w + period}

\* C1 (1): a call of a present caller is passed on to the handler iff fewer
\* than max_calls earlier admitted calls lie within the trailing period.
C1_AdmitIff ==
    (pc = "enter" /\ update.user # None)
        => ((pc' = "handler") <=>
                Cardinality(RecentAdmitted(update.user, update.command, clock,
                                           stack[1].period)) < stack[1].max_calls)

\* C1 (2): at most max_calls calls reach the handler in any window of
\* `period` seconds, and the stored history never holds more than max_calls
\* timestamps.
C1_WindowBound ==
    \A u \in Users, f \in Handlers :
        /\ \A w \in 0..MaxTime :
             Cardinality(AdmittedInWindow(u, f, w, stack[1].period)) <= stack[1].max_calls
        /\ Len(StoredCalls(u, f)) <= stack[1].max_calls

\* C1: rate_limit(max_calls=N, period=T) admits a call iff fewer than N
\* admitted calls of the caller to the action lie in the trailing T seconds;
\* no T-second window holds more than N admitted calls, a denied caller is
\* admitted again once the oldest call is T seconds old, and the stored
\* history holds at most N timestamps.
C1_RateLimit == [][C1_AdmitIff]_vars /\ []C1_WindowBound

\* a caller who used up the limit, was admitted again later, and is now denied
C1_Witness ==
    /\ pc = "done"
    /\ update.user # None
    /\ \E i \in DOMAIN trace : trace[i].ev = "reply"
    /\ Len(admitted[update.user][update.command]) > stack[1].max_calls
    /\ stack[1].max_calls >= 2

----------------------------------------------------------------------------
(* SpecGuard: a handler wrapped by one guard, of every kind *)

AuthenticationGuard == GuardRec("require_authentication")

AdminGuard == GuardRec("require_admin")

GroupAdminGuard == GuardRec("require_group_admin")

GuardConfigs ==
    {AuthenticationGuard,
     PermissionGuard("delete_messages"),
     PermissionsGuard(<<"edit_messages", "delete_messages">>, TRUE),
     PermissionsGuard(<<"edit_messages", "delete_messages">>, FALSE),
     AdminGuard,
     AccessLevelGuard(2),
     GroupAdminGuard,
     OwnerGuard(None), OwnerGuard(1),
     RateLimitGuard(1, 2),
     LogActionGuard("ban")}

GuardStacks == {<<g>> : g \in GuardConfigs}

GuardUpdates ==
    [user : Users \cup {None}, chat : ChatTypes \cup {NoChat}, command : {"start"}]

InitGuard == InitWith(GuardStacks)

NewUpdateGuard == NewUpdateIn(GuardUpdates)

GuardStep ==
    \/ RequireAuthentication
    \/ RequirePermission
    \/ RequirePermissions
    \/ RequireAdmin
    \/ RequireAdminLookup
    \/ RequireAccessLevel
    \/ RequireGroupAdmin
    \/ RequireGroupAdminLookup
    \/ RequireOwner
    \/ RequireOwnerLookup
    \/ RateLimit
    \/ LogAction

NextGuard == NewUpdateGuard \/ Tick \/ GuardStep \/ Handler \/ Unwind

SpecGuard == InitGuard /\ [][NextGuard]_vars

----------------------------------------------------------------------------
(* What the handling of the current update has done *)

Has(ev) == \E i \in DOMAIN trace : trace[i].ev = ev

Count(ev) == Cardinality({i \in DOMAIN trace : trace[i].ev = ev})

HandlerReached == pc = "handler" \/ Has("handler")

ExceptionOut == pc = "raise" \/ Has("escaped")

TopKind == stack[1].kind

----------------------------------------------------------------------------
\* C3: require_owner lets the handler run only if a fixed owner id was
\* configured and equals the caller's id, or no fixed id was configured and a
\* lookup for (chat, caller) returned status creator.  (The claim as stated.)
C3_Original ==
    (TopKind = "require_owner" /\ HandlerReached)
        => \/ stack[1].owner_id # None /\ update.user = stack[1].owner_id
           \/ /\ stack[1].owner_id = None
              /\ \E i \in DOMAIN trace :
                    /\ trace[i].ev = "lookup"
                    /\ trace[i].text = "creator"
                    /\ trace[i].n = update.user
                    /\ trace[i].items = <<update.chat>>

\* C4: no update both starts the handler and gets a guard's denial reply.
\* (The claim as stated.)
C4_Original == ~(Has("handler") /\ Has("reply"))

\* the reply each lookup guard gives when the lookup raised
ErrorVerifyingText(kind) ==
    IF kind = "require_owner" THEN "Error verifying ownership."
                              ELSE "Error verifying admin status."

\* C5: when the membership lookup of the admin, group-admin or owner (no
\* fixed id) guard raises, the guard replies with its fixed "error verifying"
\* message, the handler is not invoked and no exception leaves the guard.
C5_LookupErrorDenied ==
    \A i \in DOMAIN trace :
        (trace[i].ev = "lookup" /\ trace[i].text = "raises")
            => /\ TopKind \in {"require_admin", "require_group_admin", "require_owner"}
               /\ i + 1 \in DOMAIN trace
               /\ trace[i + 1].ev = "reply"
               /\ trace[i + 1].text = ErrorVerifyingText(TopKind)
               /\ Count("reply") = 1
               /\ ~HandlerReached
               /\ ~ExceptionOut
               /\ ~Has("raise")
               /\ pc = "done"

\* the owner guard without a fixed id has seen its lookup raise
C5_Witness ==
    /\ TopKind = "require_owner"
    /\ stack[1].owner_id = None
    /\ \E i \in DOMAIN trace : trace[i].ev = "lookup" /\ trace[i].text = "raises"

GatingKinds ==
    {"require_authentication", "require_permission", "require_permissions",
     "require_admin", "require_group_admin", "require_access_level",
     "require_owner", "rate_limit"}

\* the guards that check the chat: admin, group-admin, owner without fixed id
ChecksChat(g) ==
    \/ g.kind \in {"require_admin", "require_group_admin"}
    \/ g.kind = "require_owner" /\ g.owner_id = None

\* C6: a gating guard that finds the caller absent, or the chat absent when
\* it checks the chat, sends a reply, does not invoke the handler and raises
\* nothing.  (The claim as stated.)
C6_Original ==
    (/\ TopKind \in GatingKinds
     /\ pc \notin {"idle", "enter", "lookup"}
     /\ \/ update.user = None
        \/ ChecksChat(stack[1]) /\ update.chat = NoChat)
        => /\ Count("reply") = 1
           /\ ~HandlerReached
           /\ ~ExceptionOut

\* C7: require_group_admin outside a group or supergroup replies with the
\* wrong-chat-kind message and issues no lookup; a lookup is issued only
\* after the chat-kind check passed, and the handler is reached only after a
\* lookup returned creator or administrator.
C7_GroupAdminOrder ==
    (TopKind = "require_group_admin")
        => /\ (/\ pc = "done"
               /\ update.user # None
               /\ update.chat \in {"private", "channel"})
                 => /\ Len(trace) = 2
                    /\ trace[1].ev = "reply"
                    /\ trace[1].text = "This command can only be used in groups."
                    /\ trace[2].ev = "return"
           /\ (pc = "lookup" \/ Has("await_lookup") \/ Has("lookup"))
                 => update.user # None /\ update.chat \in {"group", "supergroup"}
           /\ HandlerReached
                 => \E i \in DOMAIN trace :
                       /\ trace[i].ev = "lookup"
                       /\ trace[i].text \in {"creator", "administrator"}
                       /\ \A j \in DOMAIN trace : trace[j].ev = "handler" => i < j

\* require_group_admin has refused an update from a private chat
C7_Witness ==
    /\ TopKind = "require_group_admin"
    /\ pc = "done"
    /\ update.user # None
    /\ update.chat = "private"
    /\ Has("reply")

\* C10: log_action always passes: whatever the update, it emits its log line
\* and then invokes the handler exactly once, and raises nothing of its own.
\* (The claim as stated.)
C10_Original ==
    (TopKind = "log_action")
        => /\ ~(\E i \in DOMAIN trace : trace[i].ev = "raise" /\ trace[i].lvl = 1)
           /\ pc = "done" => (/\ Count("log") = 1
                              /\ Count("handler") = 1)

----------------------------------------------------------------------------
(* SpecPerm: a handler wrapped by one permission guard; the permission     *)
(* cache of the callers changes between their updates                      *)

\* the `permissions` lists of the model: every list over Perms, duplicates
\* and the empty list included, up to MaxPermList entries
PermLists == UNION {[1..n -> Perms] : n \in 0..MaxPermList}

PermStacks ==
    {<<PermissionGuard(p)>> : p \in Perms}
        \cup {<<PermissionsGuard(R, a)>> : R \in PermLists, a \in BOOLEAN}

PermUpdates == [user : Users \cup {None}, chat : {"private"}, command : {"start"}]

InitPerm == InitWith(PermStacks)

NewUpdatePerm == NewUpdateIn(PermUpdates)

NextPerm ==
    \/ NewUpdatePerm
    \/ CachePermissions
    \/ RequirePermission
    \/ RequirePermissions
    \/ Handler
    \/ Unwind

SpecPerm == InitPerm /\ [][NextPerm]_vars

\* the caller's cached permission set P, empty when nothing is cached
CachedSet(u) ==
    IF "permissions" \in DOMAIN user_data[u] THEN user_data[u]["permissions"] ELSE {}

\* the set R a permissions list stands for
RequiredSet(g) == {g.permissions[i] : i \in 1..Len(g.permissions)}

\* the step in which the guard decides about the update of a present caller
C8_Decides ==
    LET g == stack[1]
        P == CachedSet(update.user)
        R == RequiredSet(g)
        passes == pc' = "handler"
        reply == trace'[1]
    IN  (pc = "enter" /\ update.user # None)
          => /\ g.kind = "require_permission" => (passes <=> g.permission \in P)
             /\ (g.kind = "require_permissions" /\ g.require_all)
                  => /\ passes <=> \A r \in R : r \in P
                     /\ ~passes =>
                          /\ reply.ev = "reply"
                          /\ {reply.items[i] : i \in 1..Len(reply.items)} = {r \in R : r \notin P}
                          /\ Len(reply.items) = Cardinality({r \in R : r \notin P})
             /\ (g.kind = "require_permissions" /\ ~g.require_all)
                  => (passes <=> \E r \in R : r \in P)

\* C8: require_permission(p) passes iff p is in the caller's cached set P;
\* require_permissions(R, require_all=True) passes iff R is a subset of P
\* and its denial lists exactly R - P; require_permissions(R,
\* require_all=False) passes iff R and P intersect; for every R and P over
\* the permission universe, empty R and empty P included.
C8_PermissionSets == [][C8_Decides]_vars

\* a caller who holds one of two required permissions has been told the
\* one that is missing
C8_Witness ==
    /\ pc = "done"
    /\ stack[1].kind = "require_permissions"
    /\ stack[1].require_all
    /\ Cardinality(RequiredSet(stack[1])) = 2
    /\ update.user # None
    /\ Cardinality(CachedSet(update.user)) = 1
    /\ Len(trace) = 2
    /\ trace[1].ev = "reply"
    /\ Len(trace[1].items) = 1

----------------------------------------------------------------------------
(* SpecLevel: a handler wrapped by require_access_level(level) *)

LevelStacks == {<<AccessLevelGuard(L)>> : L \in Levels}

InitLevel == InitWith(LevelStacks)

NextLevel ==
    \/ NewUpdatePerm
    \/ StoreAccessLevel
    \/ RequireAccessLevel
    \/ Handler
    \/ Unwind

SpecLevel == InitLevel /\ [][NextLevel]_vars

\* the caller's stored level U, 0 when none is stored
StoredLevel(u) ==
    IF "access_level" \in DOMAIN user_data[u] THEN user_data[u]["access_level"] ELSE 0

\* the fixed label table of the claim
LevelLabel == <<"User", "Moderator", "Administrator", "Super Admin">>

C9_Decides ==
    LET L == stack[1].level
        U == StoredLevel(update.user)
    IN  (pc = "enter" /\ update.user # None)
          => /\ (pc' = "handler") <=> (U >= L)
             /\ (pc' # "handler")
                  => /\ trace'[1].ev = "reply"
                     /\ trace'[1].items = <<LevelLabel[L + 1]>>

\* C9: require_access_level(L) passes iff the caller's stored level U (0
\* when none is stored) is at least L, for U and L in 0..3, and its denial
\* names L as User, Moderator, Administrator or Super Admin.
C9_AccessLevel == [][C9_Decides]_vars

\* an Administrator (level 2) has been refused an action that requires
\* Super Admin
C9_Witness ==
    /\ pc = "done"
    /\ stack[1].level = 3
    /\ update.user # None
    /\ StoredLevel(update.user) = 2
    /\ Len(trace) = 2
    /\ trace[1].ev = "reply"
    /\ trace[1].items = <<"Super Admin">>

----------------------------------------------------------------------------
(* SpecStack: a handler wrapped by a stack of guards, in every order *)

StackConfigs ==
    {AuthenticationGuard,
     PermissionGuard("delete_messages"),
     PermissionsGuard(<<"edit_messages", "delete_messages">>, FALSE),
     AdminGuard,
     AccessLevelGuard(2),
     GroupAdminGuard,
     OwnerGuard(None), OwnerGuard(2),
     RateLimitGuard(1, 2),
     LogActionGuard("ban")}

Stacks == UNION {[1..n -> StackConfigs] : n \in 1..StackDepth}

\* one present caller; OwnerGuard(2) is the fixed owner id that is not theirs
StackUpdates == [user : {1, None}, chat : {NoChat, "private", "group"}, command : {"start"}]

InitStack == InitWith(Stacks)

NewUpdateStack == NewUpdateIn(StackUpdates)

NextStack ==
    \/ NewUpdateStack
    \/ Tick
    \/ CachePermissions
    \/ StoreAccessLevel
    \/ GuardStep
    \/ Handler
    \/ Unwind

Spec == InitStack /\ [][NextStack]_vars

\* guard i went on to call what it wraps
Passed(i) == \E k \in DOMAIN trace : trace[k].ev = "call" /\ trace[k].lvl = i

\* guard i denied: it replied before calling what it wraps, or returned
\* without calling it
Denied(i) ==
    \/ \E k \in DOMAIN trace :
          /\ trace[k].ev = "reply"
          /\ trace[k].lvl = i
          /\ ~\E c \in 1..(k - 1) : trace[c].ev = "call" /\ trace[c].lvl = i
    \/ /\ \E k \in DOMAIN trace : trace[k].ev = "return" /\ trace[k].lvl = i
       /\ ~Passed(i)

\* C2: the guards of a stack are evaluated outermost first; a guard that
\* denies ends the handling: no guard inside it is evaluated (no lookup, no
\* recorded timestamp, no further reply) and the handler is not invoked; the
\* handler is invoked iff every guard of the stack passes.
C2_ShortCircuit ==
    /\ \A k \in DOMAIN trace :
          trace[k].lvl > 1
            => \E c \in 1..(k - 1) : trace[c].ev = "call" /\ trace[c].lvl = trace[k].lvl - 1
    /\ \A i \in DOMAIN stack :
          Denied(i)
            => /\ \A k \in DOMAIN trace : trace[k].lvl <= i
               /\ Count("reply") <= 1
               /\ ~HandlerReached
               /\ pc = "done"
    /\ HandlerReached <=> \A i \in DOMAIN stack : Passed(i)

\* the outer guard of two has denied an update whose inner guard would have
\* looked up the membership or recorded a timestamp
C2_Witness ==
    /\ Len(stack) = 2
    /\ stack[2].kind \in {"rate_limit", "require_admin"}
    /\ Denied(1)
    /\ Count("reply") = 1

----------------------------------------------------------------------------
(* KeyboardBuilder (src/utils/keyboards.py).  A button is written as the   *)
(* number of its text: the n-th button added has text n.                   *)

\* the state of the guards while a keyboard is built: no update is handled
GuardsIdle ==
    /\ stack = <<>>
    /\ user_data = [u \in Users |-> EmptyDict]
    /\ clock = 0
    /\ update = [user |-> None, chat |-> NoChat, command |-> "start"]
    /\ pc = "idle"
    /\ lvl = 0
    /\ trace = <<>>
    /\ admitted = [u \in Users |-> [f \in Handlers |-> <<>>]]
    /\ tasks = <<>>

guard_vars == <<stack, user_data, clock, update, pc, lvl, trace, admitted, tasks>>

\* self.buttons[-1].append(button)
AppendToLastRow(rows, button) ==
    [rows EXCEPT ![Len(rows)] = Append(@, button)]

\* add_button: `if not self.buttons or len(self.buttons[-1]) > 0:
\* self.buttons.append([])`, then the button goes into the last row
AddButtonTo(rows, button) ==
    IF rows = <<>> \/ Len(rows[Len(rows)]) > 0
    THEN AppendToLastRow(Append(rows, <<>>), button)
    ELSE AppendToLastRow(rows, button)

\* row: `if self.buttons and len(self.buttons[-1]) > 0: self.buttons.append([])`
RowOn(rows) ==
    IF rows # <<>> /\ Len(rows[Len(rows)]) > 0 THEN Append(rows, <<>>) ELSE rows

\* add_button_row: `if row: self.buttons.append(row)`
AddButtonRowTo(rows, row) == IF row # <<>> THEN Append(rows, row) ELSE rows

\* the buttons in the rows, counted
RECURSIVE ButtonCount(_)
ButtonCount(rows) ==
    IF rows = <<>> THEN 0 ELSE Len(Head(rows)) + ButtonCount(Tail(rows))

\* the loop of create_multi_action_keyboard, from action i on
RECURSIVE MultiActionLoop(_, _, _, _)
MultiActionLoop(rows, i, n, columns) ==
    IF i >= n THEN rows
    ELSE LET added == AddButtonTo(rows, i + 1)
         IN  MultiActionLoop(IF (i + 1) % columns = 0 THEN RowOn(added) ELSE added,
                             i + 1, n, columns)

\* create_multi_action_keyboard(actions, columns), for n actions
CreateMultiActionKeyboard(n, columns) == MultiActionLoop(<<>>, 0, n, columns)

Op(op, first, n, columns) == [op |-> op, first |-> first, n |-> n, columns |-> columns]

InitKeyboard ==
    /\ GuardsIdle
    /\ buttons = <<>>
    /\ ops = <<>>

AddButton ==
    /\ Len(ops) < MaxOps
    /\ buttons' = AddButtonTo(buttons, ButtonCount(buttons) + 1)
    /\ ops' = Append(ops, Op("add_button", ButtonCount(buttons) + 1, 1, 0))
    /\ UNCHANGED guard_vars

Row ==
    /\ Len(ops) < MaxOps
    /\ buttons' = RowOn(buttons)
    /\ ops' = Append(ops, Op("row", 0, 0, 0))
    /\ UNCHANGED guard_vars

AddButtonRow ==
    /\ Len(ops) < MaxOps
    /\ \E k \in 0..2 :
         LET first == ButtonCount(buttons) + 1
         IN  /\ buttons' = AddButtonRowTo(buttons, [j \in 1..k |-> first + j - 1])
             /\ ops' = Append(ops, Op("add_button_row", first, k, 0))
    /\ UNCHANGED guard_vars

Clear ==
    /\ ops # <<>>
    /\ buttons' = <<>>
    /\ ops' = <<>>
    /\ UNCHANGED guard_vars

\* create_multi_action_keyboard on a builder of its own
MultiAction ==
    /\ ops = <<>>
    /\ \E n \in 0..MaxActions, columns \in 1..MaxColumns :
         /\ buttons' = CreateMultiActionKeyboard(n, columns)
         /\ ops' = <<Op("create_multi_action_keyboard", 1, n, columns)>>
    /\ UNCHANGED guard_vars

NextKeyboard == AddButton \/ Row \/ AddButtonRow \/ Clear \/ MultiAction

SpecKeyboard == InitKeyboard /\ [][NextKeyboard]_vars

\* the row of the built keyboard that holds button b
RowOf(b) ==
    CHOOSE r \in DOMAIN buttons : \E j \in DOMAIN buttons[r] : buttons[r][j] = b

\* C11: two add_button calls with no row() between them put their buttons
\* into the same row, and create_multi_action_keyboard(actions, columns)
\* yields rows of `columns` buttons each, the last row possibly shorter.
\* (The claim as stated.)
C11_Original ==
    /\ \A i \in 1..(Len(ops) - 1) :
          (ops[i].op = "add_button" /\ ops[i + 1].op = "add_button")
            => RowOf(ops[i].first) = RowOf(ops[i + 1].first)
    /\ (ops # <<>> /\ ops[1].op = "create_multi_action_keyboard")
          => LET n == ops[1].n
                 columns == ops[1].columns
                 full == n \div columns
             IN  /\ \A r \in 1..full :
                       /\ r \in DOMAIN buttons
                       /\ buttons[r] = [j \in 1..columns |-> (r - 1) * columns + j]
                 /\ n % columns # 0
                       => /\ full + 1 \in DOMAIN buttons
                          /\ buttons[full + 1] = [j \in 1..(n % columns) |-> full * columns + j]

----------------------------------------------------------------------------
(* SpecRace: the updates of one caller to one handler under rate_limit,    *)
(* each handled as a task of its own.  A task runs from one await to the   *)
(* next without interruption; the awaits of the wrapper are the reply of   *)
(* the denial and the call of the handler, which suspends in its own reply.*)

RaceUser == 1
RaceHandler == "start"

Task(task_pc, admit, at, met) == [pc |-> task_pc, admit |-> admit, at |-> at, met |-> met]

\* the task is suspended inside the wrapper: in the reply of the denial, or in
\* the handler the wrapper awaits
Suspended(t) == tasks[t].pc \in {"reply", "handler"}

InitRace == InitWith(RateStacks)

\* the framework creates a task for the next update of the caller
Dispatch ==
    /\ Len(tasks) < MaxTasks
    /\ tasks' = Append(tasks, Task("new", FALSE, 0, FALSE))
    /\ UNCHANGED <<stack, user_data, clock, update, pc, lvl, trace, admitted, buttons, ops>>

\* a wrapper with an await between the count check and the record: the
\* verdict is reached in one step, the history written in a later one
TaskRateLimitSuspending(t) ==
    /\ tasks[t].pc \in {"new", "checked"}
    /\ LET g == stack[1]
           now == clock
           calls == PruneCalls(StoredCalls(RaceUser, RaceHandler), now, g.period)
           met == \E o \in DOMAIN tasks : o # t /\ (Suspended(o) \/ tasks[o].pc = "checked")
       IN  IF tasks[t].pc = "new"
           THEN /\ tasks' = [tasks EXCEPT ![t] =
                                Task("checked", ~RateLimitExceeded(calls, g.max_calls), now, met)]
                /\ UNCHANGED <<user_data, admitted>>
           ELSE IF tasks[t].admit
                THEN /\ user_data' = SetStoredCalls(RaceUser, RaceHandler, Append(calls, now))
                     /\ admitted' = [admitted EXCEPT ![RaceUser][RaceHandler] = Append(@, now)]
                     /\ tasks' = [tasks EXCEPT ![t].pc = "handler", ![t].at = now]
                ELSE /\ user_data' = SetStoredCalls(RaceUser, RaceHandler, calls)
                     /\ admitted' = admitted
                     /\ tasks' = [tasks EXCEPT ![t].pc = "reply", ![t].at = now]
    /\ UNCHANGED <<stack, clock, update, pc, lvl, trace, buttons, ops>>

\* the wrapper from its entry to its first await: the history is pruned, the
\* count checked and the call recorded with no await in between
TaskRateLimit(t) ==
    /\ tasks[t].pc = "new"
    /\ LET g == stack[1]
           now == clock
           calls == PruneCalls(StoredCalls(RaceUser, RaceHandler), now, g.period)
           met == \E o \in DOMAIN tasks : o # t /\ Suspended(o)
       IN  IF RateLimitExceeded(calls, g.max_calls)
           THEN /\ user_data' = SetStoredCalls(RaceUser, RaceHandler, calls)
                /\ admitted' = admitted
                /\ tasks' = [tasks EXCEPT ![t] = Task("reply", FALSE, now, met)]
           ELSE /\ user_data' = SetStoredCalls(RaceUser, RaceHandler, Append(calls, now))
                /\ admitted' = [admitted EXCEPT ![RaceUser][RaceHandler] = Append(@, now)]
                /\ tasks' = [tasks EXCEPT ![t] = Task("handler", TRUE, now, met)]
    /\ UNCHANGED <<stack, clock, update, pc, lvl, trace, buttons, ops>>

\* the awaited reply, or the handler, completes and the wrapper returns
TaskResume(t) ==
    /\ Suspended(t)
    /\ tasks' = [tasks EXCEPT ![t].pc = "done"]
    /\ UNCHANGED <<stack, user_data, clock, update, pc, lvl, trace, admitted, buttons, ops>>

NextRace ==
    \/ Dispatch
    \/ Tick
    \/ \E t \in DOMAIN tasks : TaskRateLimit(t)
    \/ \E t \in DOMAIN tasks : TaskResume(t)

SpecRace == InitRace /\ [][NextRace]_vars

\* more than max_calls invocations were admitted within one period
OverAdmitted ==
    \E w \in 0..MaxTime :
        Cardinality(AdmittedInWindow(RaceUser, RaceHandler, w, stack[1].period))
            > stack[1].max_calls

\* how often the time t occurs in a history
Occurrences(calls, t) == Cardinality({i \in DOMAIN calls : calls[i] = t})

\* the timestamp of an admitted invocation that is still within the period is
\* missing from the stored history
TimestampLost ==
    \E i \in DOMAIN admitted[RaceUser][RaceHandler] :
        LET t == admitted[RaceUser][RaceHandler][i]
        IN  /\ clock - t < stack[1].period
            /\ Occurrences(StoredCalls(RaceUser, RaceHandler), t)
                 < Occurrences(admitted[RaceUser][RaceHandler], t)

\* some invocation ran its prune / check / record while another invocation
\* was suspended inside the wrapper
Interleaved == \E t \in DOMAIN tasks : tasks[t].met

\* C12 (as stated): when more invocations of one caller than max_calls run
\* as interleaved tasks at the same instant, more than max_calls of them are
\* admitted within one period or a recorded timestamp is lost.
C12_Original ==
    ( /\ Len(tasks) > stack[1].max_calls
      /\ \A t \in DOMAIN tasks : tasks[t].pc = "done" /\ tasks[t].at = clock
      /\ Interleaved )
        => (OverAdmitted \/ TimestampLost)

\* C12 (amended): however the tasks of one caller interleave at their
\* awaits, no period holds more than max_calls admitted invocations, no
\* recorded timestamp within the period is lost, and the history holds
\* nothing but the timestamps of admitted invocations.
C12_NoRace ==
    /\ ~OverAdmitted
    /\ ~TimestampLost
    /\ \A t \in 0..MaxTime :
          Occurrences(StoredCalls(RaceUser, RaceHandler), t)
            <= Occurrences(admitted[RaceUser][RaceHandler], t)

\* an admitted invocation is suspended in the handler while another one of
\* the same instant, found over the limit, is suspended in its reply
C12_Witness ==
    \E a, b \in DOMAIN tasks :
        /\ tasks[a].pc = "handler"
        /\ tasks[b].pc = "reply"
        /\ tasks[b].met
        /\ tasks[a].at = tasks[b].at

----------------------------------------------------------------------------
(* SpecRateStack: a handler wrapped by two rate_limit decorators with      *)
(* different parameters.  @wraps gives the outer wrapper's `func` the name *)
(* of the handler, so both wrappers use the history stored under that name.*)

\* the stacked decorations, outer first, each as <<max_calls, period>>
RatePairs ==
    { <<<<2, 2>>, <<1, 1>>>>, <<<<1, 2>>, <<2, 1>>>>,
      <<<<3, 4>>, <<2, 1>>>>, <<<<2, 1>>, <<3, 2>>>> }

RatePairStacks ==
    {<<RateLimitGuard(c[1][1], c[1][2]), RateLimitGuard(c[2][1], c[2][2])>> : c \in RatePairs}

RatePairUpdates == [user : {1, None}, chat : {"private"}, command : {"start"}]

InitRateStack == InitWith(RatePairStacks)

NewUpdateRateStack == NewUpdateIn(RatePairUpdates)

NextRateStack == NewUpdateRateStack \/ Tick \/ RateLimit \/ Handler \/ Unwind

SpecRateStack == InitRateStack /\ [][NextRateStack]_vars

\* the call being handled is within the limit of guard i: fewer than its
\* max_calls invocations of the handler lie in its trailing period
WithinLimit(i) ==
    Cardinality(RecentAdmitted(update.user, update.command, clock, stack[i].period))
        < stack[i].max_calls

\* an invocation that is within both limits is not turned away
C13_AdmitsWithinBoth ==
    (pc = "enter" /\ update.user # None /\ \A i \in DOMAIN stack : WithinLimit(i))
        => pc' # "done"

\* the handler is invoked at most max_calls times in any window of either guard
C13_WindowBounds ==
    \A i \in DOMAIN stack, u \in Users, f \in Handlers, w \in 0..MaxTime :
        Cardinality(AdmittedInWindow(u, f, w, stack[i].period)) <= stack[i].max_calls

\* C13: two stacked rate_limit guards with different parameters are enforced
\* independently: per caller the handler is invoked at most N1 times in any
\* T1 window and at most N2 times in any T2 window, and an invocation within
\* both limits is admitted.  (The claim as stated.)
C13_Original == [][C13_AdmitsWithinBoth]_vars /\ []C13_WindowBounds

----------------------------------------------------------------------------
(* The pruning boundary of rate_limit, under SpecRate *)

\* the stored timestamps the claim's sentence retains: t >= now - period
RetainedAsStated(calls, now, period) ==
    SelectSeq(calls, LAMBDA t : t >= now - period)

\* the stored timestamps younger than the period: t > now - period
RetainedYounger(calls, now, period) ==
    SelectSeq(calls, LAMBDA t : t > now - period)

\* the history of the caller of the update being handled
UpdateCalls == StoredCalls(update.user, update.command)

\* a step of the rate_limit wrapper for a present caller leaves the history
\* as `kept`, with `clock` appended when the call is passed on, and passes
\* the call on iff `kept` holds fewer than max_calls timestamps
RateLimitStepLeaves(kept) ==
    (pc = "enter" /\ update.user # None)
        => /\ (pc' = "handler") <=> (Len(kept) < stack[1].max_calls)
           /\ UpdateCalls' = IF pc' = "handler" THEN Append(kept, clock) ELSE kept

\* C14 (as stated): a stored timestamp t is removed before the count check
\* iff t < now - period; every t >= now - period is retained and counted, a
\* denied invocation records nothing and an admitted one appends exactly now.
C14_Original ==
    [][RateLimitStepLeaves(RetainedAsStated(UpdateCalls, clock, stack[1].period))]_vars

\* C14 (amended): a stored timestamp t is removed before the count check iff
\* t <= now - period; every t > now - period is retained and counted, a
\* denied invocation records nothing and an admitted one appends exactly now.
C14_PruneBoundary ==
    [][RateLimitStepLeaves(RetainedYounger(UpdateCalls, clock, stack[1].period))]_vars

\* a call passed on at the moment the only thing in its way, an earlier call
\* exactly `period` seconds old, was removed from the history
C14_Witness ==
    /\ pc = "handler"
    /\ update.user # None
    /\ stack[1].period <= clock
    /\ Occurrences(admitted[update.user][update.command], clock - stack[1].period)
         = stack[1].max_calls
    /\ Occurrences(UpdateCalls, clock - stack[1].period) = 0
    /\ Occurrences(UpdateCalls, clock) = 1

====
